---- MODULE Spec2Model ----
(***************************************************************************)
(* Capital gains tax engine of the ASX portfolio tracker                   *)
(* (src/cgt_calculator.py): the tax parcel store, the rebuild from the     *)
(* transaction ledger, the disposal matcher (historical and live), and the *)
(* annual aggregation with carried-forward losses.                         *)
(*                                                                         *)
(* Rows of a table are the elements of a sequence in rowid order; a row's  *)
(* id is its position.  Amounts are exact rationals held as integers in    *)
(* units of 1/MoneyScale dollars (the code uses binary floating point).    *)
(* Dates are <<year, month, day>>; the code's 'YYYY-MM-DD' strings compare *)
(* the same way.                                                           *)
(***************************************************************************)
EXTENDS Integers, Sequences, FiniteSets, TLC

VARIABLES
    ledger,     \* table transactions, in id order
    parcels,    \* table tax_parcels, in id order
    events,     \* table cgt_events, in id order
    drawn,      \* for each row of cgt_events, the id of the parcel it was drawn from
    losses,     \* table capital_losses, in rowid order
    pc,         \* "idle", or "rebuild" inside create_tax_parcels_from_transactions
    pending,    \* the fetched transactions the rebuild loop has not processed yet
    last,       \* what the last operation was asked and what it reported
    nops,       \* live operations since the last rebuild
    baseline,   \* what the last completed rebuild read and left
    inflight,   \* calculate_cgt_for_sale calls that have read the parcels and not yet written
    api_calls_today,  \* ASXPortfolioTracker.api_calls_today
    last_api_reset,   \* ASXPortfolioTracker.last_api_reset, as a day number
    today       \* datetime.now().date(), as a day number

vars == <<ledger, parcels, events, drawn, losses, pc, pending, last, nops, baseline,
         inflight, api_calls_today, last_api_reset, today>>

----------------------------------------------------------------------------
(* Bounds and input domains *)

MaxLedger == 3      \* rows of the transactions table
MaxOps == 2         \* live operations between two rebuilds
MaxQty == 2         \* shares of the largest sell of the ledger
MaxYears == 3       \* calendar years of the dates given to get_tax_year alone

Stocks == {"A", "B"}

D1 == <<2023, 7, 1>>
D2 == <<2024, 6, 30>>
D3 == <<2024, 7, 1>>
D4 == <<2025, 7, 1>>

Methods == {"FIFO", "LIFO", "Specific"}

Min(a, b) == IF a <= b THEN a ELSE b
Max(a, b) == IF a >= b THEN a ELSE b
Abs(x) == IF x < 0 THEN -x ELSE x

----------------------------------------------------------------------------
(* Dates: string order, calendar arithmetic, tax year *)

\* 'YYYY-MM-DD' strings compared by SQLite (acquisition_date <= ?, ORDER BY).
DateLT(a, b) ==
    \/ a[1] < b[1]
    \/ a[1] = b[1] /\ a[2] < b[2]
    \/ a[1] = b[1] /\ a[2] = b[2] /\ a[3] < b[3]

DateLE(a, b) == a = b \/ DateLT(a, b)

IsLeap(y) == (y % 4 = 0) /\ ((y % 100 # 0) \/ (y % 400 = 0))

DaysInMonth(y, m) ==
    IF m = 2 THEN (IF IsLeap(y) THEN 29 ELSE 28)
    ELSE IF m \in {4, 6, 9, 11} THEN 30 ELSE 31

RECURSIVE DaysBeforeMonth(_, _)
DaysBeforeMonth(y, m) ==
    IF m = 1 THEN 0 ELSE DaysBeforeMonth(y, m - 1) + DaysInMonth(y, m - 1)

DaysBeforeYear(y) ==
    (y - 1) * 365 + ((y - 1) \div 4) - ((y - 1) \div 100) + ((y - 1) \div 400)

\* datetime.strptime(s, '%Y-%m-%d') as a day number (the proleptic ordinal).
Ordinal(d) == DaysBeforeYear(d[1]) + DaysBeforeMonth(d[1], d[2]) + d[3]

\* (strptime(sale_date) - strptime(acq_date)).days
HoldingPeriod(sale_date, acq_date) == Ordinal(sale_date) - Ordinal(acq_date)

cgt_holding_period_days == 365

TaxYearOfCalendarYear(d) == <<d[1], d[1] + 1>>

\* get_tax_year: the label "Y-(Y+1)" is the pair <<Y, Y+1>>.
get_tax_year(d) ==
    IF d[2] >= 7 THEN <<d[1], d[1] + 1>> ELSE <<d[1] - 1, d[1]>>

----------------------------------------------------------------------------
(* Amounts *)

cgt_discount_num == 1
cgt_discount_den == 2

RECURSIVE Gcd(_, _)
Gcd(a, b) == IF b = 0 THEN a ELSE Gcd(b, a % b)

RECURSIVE LcmUpTo(_)
LcmUpTo(n) == IF n <= 1 THEN 1 ELSE (LcmUpTo(n - 1) * n) \div Gcd(LcmUpTo(n - 1), n)

\* Units per dollar: every proportion shares/quantity of a cost base and the
\* discounted half of a gain are whole numbers of units.
MoneyScale == cgt_discount_den * LcmUpTo(MaxQty + 1)

Dollars(n) == n * MoneyScale

----------------------------------------------------------------------------
(* Input domains *)

Txn(date, stock, action, quantity, price, fees, status) ==
    [date |-> date, stock |-> stock, action |-> action, quantity |-> quantity,
     price |-> Dollars(price), total |-> Dollars(quantity * price),
     fees |-> Dollars(fees), status |-> status]

\* Rows the bookkeeping side may insert into transactions.
TxnChoices ==
    { Txn(D1, "A", "buy", MaxQty + 1, 2, 1, "executed"),
      Txn(D3, "A", "buy", 1, 2, 1, "executed"),
      Txn(D2, "A", "sell", MaxQty, 1, 1, "executed"),
      Txn(D3, "A", "sell", 1, 4, 1, "executed"),
      Txn(D1, "B", "buy", 1, 2, 1, "executed"),
      Txn(D1, "A", "buy", 1, 2, 1, "pending") }

Sale(stock, sale_date, quantity, sale_price, method) ==
    [stock |-> stock, sale_date |-> sale_date, quantity |-> quantity,
     sale_price |-> Dollars(sale_price), method |-> method]

\* Arguments of calculate_cgt_for_sale.
SaleChoices ==
    { Sale("A", D3, 1, 4, "FIFO"),
      Sale("A", D3, MaxQty, 4, "LIFO"),
      Sale("A", D3, MaxQty, 1, "Specific"),
      Sale("A", D2, MaxQty + 2, 4, "FIFO"),
      Sale("B", D1, 1, 4, "LIFO") }

\* Arguments of get_tax_year called on its own: the first and the last day
\* of every month of MaxYears calendar years.
DateChoices ==
    { x \in (D1[1]..(D1[1] + MaxYears - 1)) \X (1..12) \X (1..31) :
          x[3] = 1 \/ x[3] = DaysInMonth(x[1], x[2]) }

\* Arguments of get_unrealised_gains: a price map (a function from the
\* instruments it has a price for).
PriceMaps ==
    { [stock \in {"A"} |-> Dollars(4)],
      [stock \in {} |-> Dollars(0)] }

\* datetime.now() when the estimates are made.
NowChoices == {D3}

\* Arguments of optimize_cgt_sale.
OptimizeChoices ==
    { [stock |-> "A", target_gain |-> Dollars(1), current_price |-> Dollars(4)] }

\* Arguments of calculate_annual_cgt.
TaxYears == { get_tax_year(d) : d \in {D1, D2, D3} }

----------------------------------------------------------------------------
(* Queries *)

\* The ids of S in ORDER BY date [DESC]; SQLite returns equal keys in rowid
\* order in both directions.
RECURSIVE OrderBy(_, _, _)
OrderBy(date, S, desc) ==
    IF S = {} THEN <<>>
    ELSE LET Precedes(i, j) ==
                 IF date[i] = date[j] THEN i < j
                 ELSE IF desc THEN DateLT(date[j], date[i])
                      ELSE DateLT(date[i], date[j])
             first == CHOOSE i \in S : \A j \in S \ {i} : Precedes(i, j)
         IN  <<first>> \o OrderBy(date, S \ {first}, desc)

\* SELECT ... FROM transactions ORDER BY date ASC, id ASC
TransactionsOfAnyStatus(txs) ==
    LET ids == OrderBy([i \in DOMAIN txs |-> txs[i].date], DOMAIN txs, FALSE)
    IN  [k \in DOMAIN ids |-> txs[ids[k]]]

\* SELECT ... FROM transactions WHERE status = 'executed' ORDER BY date ASC, id ASC
ExecutedTransactions(txs) ==
    LET ids == OrderBy([i \in DOMAIN txs |-> txs[i].date],
                       {i \in DOMAIN txs : txs[i].status = "executed"}, FALSE)
    IN  [k \in DOMAIN ids |-> txs[ids[k]]]

OrderAlwaysAsc(method) == FALSE

\* if method == 'FIFO' ... elif method == 'LIFO' ... else ...
OrderDesc(method) ==
    IF method = "FIFO" THEN FALSE
    ELSE IF method = "LIFO" THEN TRUE
    ELSE FALSE

AcqDates(ps) == [i \in DOMAIN ps |-> ps[i].acquisition_date]

\* the same SELECT with acquisition_date < ?
HistoricalParcelsBefore(ps, stock, sale_date, method) ==
    OrderBy(AcqDates(ps),
            {i \in DOMAIN ps : /\ ps[i].stock = stock
                               /\ ps[i].remaining_quantity > 0
                               /\ DateLT(ps[i].acquisition_date, sale_date)},
            OrderDesc(method))

\* _calculate_cgt_for_historical_sale's SELECT: parcels of the stock with
\* shares left, acquired on or before the sale date.
HistoricalParcels(ps, stock, sale_date, method) ==
    OrderBy(AcqDates(ps),
            {i \in DOMAIN ps : /\ ps[i].stock = stock
                               /\ ps[i].remaining_quantity > 0
                               /\ DateLE(ps[i].acquisition_date, sale_date)},
            OrderDesc(method))

\* calculate_cgt_for_sale's SELECT: parcels of the stock with shares left.
LiveParcels(ps, stock, method) ==
    OrderBy(AcqDates(ps),
            {i \in DOMAIN ps : /\ ps[i].stock = stock
                               /\ ps[i].remaining_quantity > 0},
            OrderDesc(method))

----------------------------------------------------------------------------
(* Disposal matcher *)

DiscountEligibleFrom(holding_period) == holding_period >= cgt_holding_period_days

\* discount_eligible = holding_period > self.cgt_holding_period_days
DiscountEligible(holding_period) == holding_period > cgt_holding_period_days

DiscountWhenEligible(capital_gain, discount_eligible) ==
    IF discount_eligible
    THEN (capital_gain * (cgt_discount_den - cgt_discount_num)) \div cgt_discount_den
    ELSE capital_gain

\* if discount_eligible and capital_gain > 0:
\*     discounted_gain = capital_gain * (1 - self.cgt_discount_rate)
\* else: discounted_gain = capital_gain
DiscountedGain(capital_gain, discount_eligible) ==
    IF discount_eligible /\ capital_gain > 0
    THEN (capital_gain * (cgt_discount_den - cgt_discount_num)) \div cgt_discount_den
    ELSE capital_gain

\* The CGTEvent built from one parcel (the body of the loop over parcels).
CGTEvent(p, stock, sale_date, shares_from_parcel, sale_price, method) ==
    LET \* proportion = shares_from_parcel / original_qty, times the cost base
        proportional_cost_base == (p.cost_base * shares_from_parcel) \div p.quantity
        sale_proceeds == shares_from_parcel * sale_price
        capital_gain == sale_proceeds - proportional_cost_base
        holding_period == HoldingPeriod(sale_date, p.acquisition_date)
        discount_eligible == DiscountEligible(holding_period)
        discounted_gain == DiscountedGain(capital_gain, discount_eligible)
    IN  [stock |-> stock, sale_date |-> sale_date, quantity |-> shares_from_parcel,
         sale_price |-> sale_price, sale_total |-> sale_proceeds,
         cost_base |-> proportional_cost_base,
         acquisition_date |-> p.acquisition_date, capital_gain |-> capital_gain,
         discount_eligible |-> discount_eligible,
         discounted_gain |-> discounted_gain, method |-> method]

SharesFromParcelWhole(remaining_to_sell, available_qty) == available_qty

SharesFromParcelNoMin(remaining_to_sell, available_qty) == remaining_to_sell

\* shares_from_parcel = min(remaining_to_sell, available_qty)
SharesFromParcel(remaining_to_sell, available_qty) ==
    Min(remaining_to_sell, available_qty)

\* the same UPDATE without sold
UpdateRemainingOnly(ps, parcel_id, new_remaining) ==
    [ps EXCEPT ![parcel_id].remaining_quantity = new_remaining]

\* UPDATE tax_parcels SET remaining_quantity = ?, sold = ? WHERE id = ?
UpdateParcel(ps, parcel_id, new_remaining) ==
    [ps EXCEPT ![parcel_id].remaining_quantity = new_remaining,
               ![parcel_id].sold = (new_remaining = 0)]

\* for parcel in parcels: ... (the same loop in both sale functions).  ids are
\* the fetched parcels in order; the result holds the table as the cursor's
\* UPDATEs left it, the events built, the parcel each was drawn from, and
\* what is still to sell when the loop ends.
RECURSIVE DrawFromParcels(_, _, _, _, _, _, _)
DrawFromParcels(ps, ids, remaining_to_sell, stock, sale_date, sale_price, method) ==
    IF ids = <<>> \/ remaining_to_sell <= 0
    THEN [parcels |-> ps, cgt_events |-> <<>>, src |-> <<>>,
          remaining_to_sell |-> remaining_to_sell]
    ELSE LET parcel_id == Head(ids)
             available_qty == ps[parcel_id].remaining_quantity
             shares_from_parcel == SharesFromParcel(remaining_to_sell, available_qty)
             event == CGTEvent(ps[parcel_id], stock, sale_date,
                               shares_from_parcel, sale_price, method)
             new_remaining == available_qty - shares_from_parcel
             rest == DrawFromParcels(UpdateParcel(ps, parcel_id, new_remaining),
                                     Tail(ids), remaining_to_sell - shares_from_parcel,
                                     stock, sale_date, sale_price, method)
         IN  [rest EXCEPT !.cgt_events = <<event>> \o @, !.src = <<parcel_id>> \o @]

AvailableIsRemainder(quantity, remaining_to_sell) == remaining_to_sell

\* "Need {quantity}, but only {quantity - remaining_to_sell} available"
AvailableReported(quantity, remaining_to_sell) == quantity - remaining_to_sell

\* _calculate_cgt_for_historical_sale, run on the rebuild's cursor: what it
\* raised ("none" when it returned), the table as it left it, and the events
\* it returned.
HistoricalSale(ps, stock, sale_date, quantity, sale_price, method) ==
    LET ids == HistoricalParcels(ps, stock, sale_date, method)
        r == DrawFromParcels(ps, ids, quantity, stock, sale_date, sale_price, method)
    IN  IF ids = <<>>
        THEN [raised |-> "no_parcels", parcels |-> ps, cgt_events |-> <<>>,
              src |-> <<>>, need |-> quantity, available |-> 0]
        ELSE IF r.remaining_to_sell > 0
        THEN [raised |-> "insufficient", parcels |-> r.parcels, cgt_events |-> <<>>,
              src |-> <<>>, need |-> quantity,
              available |-> AvailableReported(quantity, r.remaining_to_sell)]
        ELSE [raised |-> "none", parcels |-> r.parcels, cgt_events |-> r.cgt_events,
              src |-> r.src, need |-> quantity, available |-> quantity]

EventRowsOfAcquisitionYear(cgt_events, sale_date) ==
    [k \in DOMAIN cgt_events |->
        [tax_year |-> get_tax_year(cgt_events[k].acquisition_date)] @@ cgt_events[k]]

\* The rows INSERTed INTO cgt_events for the events of one sale.
EventRows(cgt_events, sale_date) ==
    [k \in DOMAIN cgt_events |->
        [tax_year |-> get_tax_year(sale_date)] @@ cgt_events[k]]

ReplaceEvents(rows, new_rows) == new_rows

\* INSERT INTO cgt_events, once per event of the sale: the rows are appended.
InsertEvents(rows, new_rows) == rows \o new_rows

KeepCursorUpdates(before, updated) == updated

\* conn.close() without conn.commit(): the UPDATEs the loop made on this
\* connection are discarded and the table is as it was before the call.
CloseWithoutCommit(before, updated) == before

AcquiredOnOrBefore(acquisition_date, sale_date) == DateLE(acquisition_date, sale_date)

\* calculate_cgt_for_sale's SELECT has no condition on acquisition_date: the
\* sale date plays no part in which parcels are fetched.
AnyAcquisitionDate(acquisition_date, sale_date) == TRUE

\* calculate_cgt_for_sale on its own connection.
LiveSaleOutcome(ps, sale) ==
    LET ids == SelectSeq(LiveParcels(ps, sale.stock, sale.method),
                         LAMBDA i : AnyAcquisitionDate(ps[i].acquisition_date,
                                                       sale.sale_date))
        r == DrawFromParcels(ps, ids, sale.quantity, sale.stock, sale.sale_date,
                             sale.sale_price, sale.method)
    IN  IF ids = <<>>
        THEN [raised |-> "no_parcels", parcels |-> ps, cgt_events |-> <<>>,
              src |-> <<>>, need |-> sale.quantity, available |-> 0]
        ELSE IF r.remaining_to_sell > 0
        THEN [raised |-> "insufficient",
              parcels |-> CloseWithoutCommit(ps, r.parcels), cgt_events |-> <<>>,
              src |-> <<>>, need |-> sale.quantity,
              available |-> AvailableReported(sale.quantity, r.remaining_to_sell)]
        ELSE [raised |-> "none", parcels |-> r.parcels, cgt_events |-> r.cgt_events,
              src |-> r.src, need |-> sale.quantity, available |-> sale.quantity]

----------------------------------------------------------------------------
(* Annual aggregation *)

\* The loop over the tax year's events: the four running totals.
RECURSIVE AnnualTotals(_)
AnnualTotals(rows) ==
    IF rows = <<>>
    THEN [total_gains |-> 0, total_losses |-> 0,
          discount_eligible_gains |-> 0, discounted_gains |-> 0]
    ELSE LET e == Head(rows)
             t == AnnualTotals(Tail(rows))
         IN  IF e.capital_gain > 0
             THEN IF e.discount_eligible
                  THEN [t EXCEPT !.total_gains = @ + e.capital_gain,
                                 !.discount_eligible_gains = @ + e.capital_gain,
                                 !.discounted_gains = @ + e.discounted_gain]
                  ELSE [t EXCEPT !.total_gains = @ + e.capital_gain,
                                 !.discounted_gains = @ + e.capital_gain]
             ELSE [t EXCEPT !.total_losses = @ + Abs(e.capital_gain)]

\* SELECT ... FROM cgt_events WHERE tax_year = ?
EventsOfYear(rows, tax_year) == SelectSeq(rows, LAMBDA e : e.tax_year = tax_year)

\* SELECT SUM(remaining_loss) FROM capital_losses WHERE remaining_loss > 0
\* (None, read as 0, when no row qualifies)
RECURSIVE CarriedLosses(_)
CarriedLosses(rows) ==
    IF rows = <<>> THEN 0
    ELSE (IF Head(rows).remaining_loss > 0 THEN Head(rows).remaining_loss ELSE 0)
         + CarriedLosses(Tail(rows))

NetWithoutFloor(current_year_net, carried_losses) ==
    current_year_net - carried_losses

\* net_capital_gain = max(0, current_year_net - carried_losses)
NetAfterCarried(current_year_net, carried_losses) ==
    Max(0, current_year_net - carried_losses)

\* used_carried_losses = min(carried_losses, current_year_net)
UsedCarriedLosses(current_year_net, carried_losses) ==
    Min(carried_losses, current_year_net)

\* UPDATE capital_losses SET remaining_loss = remaining_loss - ?
\* WHERE remaining_loss > 0
ReduceLosses(rows, used) ==
    [k \in DOMAIN rows |->
        IF rows[k].remaining_loss > 0
        THEN [rows[k] EXCEPT !.remaining_loss = @ - used]
        ELSE rows[k]]

AppendLoss(rows, tax_year, amount) ==
    Append(rows, [tax_year |-> tax_year, loss_amount |-> amount,
                  remaining_loss |-> amount])

AccumulateLoss(rows, tax_year, amount) ==
    LET recorded == SelectSeq(rows, LAMBDA r : r.tax_year = tax_year)
        total == amount + (IF recorded = <<>> THEN 0 ELSE recorded[1].loss_amount)
    IN  Append(SelectSeq(rows, LAMBDA r : r.tax_year # tax_year),
               [tax_year |-> tax_year, loss_amount |-> total, remaining_loss |-> total])

\* INSERT OR REPLACE INTO capital_losses (tax_year, loss_amount, remaining_loss,
\* source): a row of the same tax_year is deleted and the new one appended.
ReplaceLoss(rows, tax_year, amount) ==
    Append(SelectSeq(rows, LAMBDA r : r.tax_year # tax_year),
           [tax_year |-> tax_year, loss_amount |-> amount, remaining_loss |-> amount])

\* calculate_annual_cgt: the CGTSummary returned and capital_losses after it.
AnnualOutcome(evs, ls, tax_year) ==
    LET t == AnnualTotals(EventsOfYear(evs, tax_year))
        carried_losses == CarriedLosses(ls)
        current_year_net == t.discounted_gains - t.total_losses
        used_carried_losses == UsedCarriedLosses(current_year_net, carried_losses)
    IN  [summary |->
            [tax_year |-> tax_year,
             total_capital_gains |-> t.total_gains,
             total_capital_losses |-> t.total_losses,
             discount_eligible_gains |-> t.discount_eligible_gains,
             discounted_gains |-> t.discounted_gains,
             net_capital_gain |->
                 IF current_year_net > 0
                 THEN NetAfterCarried(current_year_net, carried_losses)
                 ELSE 0,
             carried_forward_losses |->
                 carried_losses - (IF current_year_net > 0 THEN used_carried_losses ELSE 0)],
         losses |->
            IF current_year_net > 0
            THEN IF used_carried_losses > 0
                 THEN ReduceLosses(ls, used_carried_losses)
                 ELSE ls
            ELSE IF current_year_net < 0
                 THEN ReplaceLoss(ls, tax_year, Abs(current_year_net))
                 ELSE ls]

----------------------------------------------------------------------------
(* Estimates on the open parcels *)

DeleteExhausted(rows) == SelectSeq(rows, LAMBDA p : p.remaining_quantity > 0)

\* A connection that only SELECTs and is closed: the table stays as it is.
SelectOnly(rows) == rows

EveryParcel(ps) == DOMAIN ps

\* SELECT ... FROM tax_parcels WHERE remaining_quantity > 0
OpenParcels(ps) == {i \in DOMAIN ps : ps[i].remaining_quantity > 0}

\* The ids of S in rowid order.
InRowidOrder(ps, S) == SelectSeq([i \in 1..Len(ps) |-> i], LAMBDA i : i \in S)

\* The dict appended for one parcel by get_unrealised_gains.
UnrealisedRecord(p, current_price, now) ==
    LET proportional_cost_base == (p.cost_base * p.remaining_quantity) \div p.quantity
        current_value == p.remaining_quantity * current_price
        unrealised_gain == current_value - proportional_cost_base
        holding_days == HoldingPeriod(now, p.acquisition_date)
        discount_eligible == DiscountEligible(holding_days)
    IN  [stock |-> p.stock, acquisition_date |-> p.acquisition_date,
         quantity |-> p.remaining_quantity, cost_base |-> proportional_cost_base,
         current_value |-> current_value, unrealised_gain |-> unrealised_gain,
         holding_period_days |-> holding_days,
         discount_eligible |-> discount_eligible,
         after_discount |-> DiscountedGain(unrealised_gain, discount_eligible)]

\* get_unrealised_gains: the list returned, and the parcel of each record.
get_unrealised_gains(ps, current_prices, now) ==
    LET src == InRowidOrder(ps, {i \in OpenParcels(ps) :
                                    ps[i].stock \in DOMAIN current_prices})
    IN  [src |-> src,
         unrealised |-> [k \in DOMAIN src |->
             UnrealisedRecord(ps[src[k]], current_prices[ps[src[k]].stock], now)]]

\* int(x / y) for y > 0: the quotient truncated towards zero.
IntQuotient(x, y) == IF x >= 0 THEN x \div y ELSE -((-x) \div y)

\* The dict appended for one parcel by optimize_cgt_sale.
Suggestion(ps, parcel_id, target_gain, current_price, now) ==
    LET p == ps[parcel_id]
        cost_per_share == p.cost_base \div p.quantity
        gain_per_share == current_price - cost_per_share
        discount_eligible == DiscountEligible(HoldingPeriod(now, p.acquisition_date))
        effective_gain_per_share == DiscountedGain(gain_per_share, discount_eligible)
    IN  [parcel_id |-> parcel_id, acquisition_date |-> p.acquisition_date,
         available_quantity |-> p.remaining_quantity,
         cost_per_share |-> cost_per_share, gain_per_share |-> gain_per_share,
         discount_eligible |-> discount_eligible,
         effective_gain_per_share |-> effective_gain_per_share,
         shares_for_target |->
             IF effective_gain_per_share > 0
             THEN IntQuotient(target_gain, effective_gain_per_share)
             ELSE 0]

\* sorted(suggestions, key=effective_gain_per_share): a stable sort.
RECURSIVE SortedByGain(_)
SortedByGain(suggestions) ==
    IF suggestions = <<>> THEN <<>>
    ELSE LET k == CHOOSE i \in DOMAIN suggestions :
                      \A j \in DOMAIN suggestions :
                          \/ suggestions[i].effective_gain_per_share
                                 < suggestions[j].effective_gain_per_share
                          \/ /\ suggestions[i].effective_gain_per_share
                                    = suggestions[j].effective_gain_per_share
                             /\ i <= j
         IN  <<suggestions[k]>> \o
             SortedByGain(SubSeq(suggestions, 1, k - 1)
                          \o SubSeq(suggestions, k + 1, Len(suggestions)))

\* optimize_cgt_sale: the suggestions returned.
optimize_cgt_sale(ps, stock, target_gain, current_price, now) ==
    LET ids == LiveParcels(ps, stock, "FIFO")
    IN  SortedByGain([k \in DOMAIN ids |->
            Suggestion(ps, ids[k], target_gain, current_price, now)])

----------------------------------------------------------------------------
(* Rebuild *)

KeepRows(rows) == rows

\* DELETE FROM cgt_events / tax_parcels / capital_losses
DeleteCgtEvents(rows) == <<>>
DeleteTaxParcels(rows) == <<>>
DeleteCapitalLosses(rows) == <<>>

StopAtFailure(rest, raised) == IF raised = "none" THEN rest ELSE <<>>

\* except Exception: print(...); continue -- whether the sale returned or
\* raised, the loop goes on with the rest of the fetched transactions.
ContinueWith(rest, raised) == rest

\* INSERT INTO tax_parcels for a buy: cost_base = total + fees, sold defaults to 0
NewParcel(t) ==
    [stock |-> t.stock, acquisition_date |-> t.date, quantity |-> t.quantity,
     remaining_quantity |-> t.quantity, unit_cost |-> t.price,
     total_cost |-> t.total, brokerage |-> t.fees,
     cost_base |-> t.total + t.fees, sold |-> FALSE]

----------------------------------------------------------------------------
(* State machine *)

NoBaseline == [valid |-> FALSE]

\* What an operation reported: the request, the error raised ("none" when it
\* returned) with the quantities its message names, the number of events it
\* stored; for the steps of a rebuild, the sells skipped so far (the warnings
\* printed), whether an earlier rebuild had read the same executed
\* transactions, and whether the store had changed since that rebuild.
Report(op, req, raised, need, available, produced) ==
    [op |-> op, req |-> req, raised |-> raised, need |-> need,
     available |-> available, produced |-> produced,
     skipped |-> 0, dirty |-> FALSE, rerun |-> FALSE]

Quiet(op) == Report(op, <<>>, "none", 0, 0, 0)

InRebuild(report) ==
    [report EXCEPT !.skipped = last.skipped + (IF report.raised = "none" THEN 0 ELSE 1),
                   !.dirty = last.dirty, !.rerun = last.rerun]

Init ==
    /\ ledger = <<>>
    /\ parcels = <<>>
    /\ events = <<>>
    /\ drawn = <<>>
    /\ losses = <<>>
    /\ pc = "idle"
    /\ pending = <<>>
    /\ last = Quiet("init")
    /\ nops = 0
    /\ baseline = NoBaseline
    /\ inflight = {}
    /\ api_calls_today = 0
    /\ last_api_reset = 0
    /\ today = 0

\* The bookkeeping side inserts a row into transactions.
AddTransaction(t) ==
    /\ pc = "idle"
    /\ Len(ledger) < MaxLedger
    /\ ledger' = Append(ledger, t)
    /\ last' = Quiet("add")
    /\ baseline' = IF t.status = "executed" THEN NoBaseline ELSE baseline
    /\ UNCHANGED <<parcels, events, drawn, losses, pc, pending, nops,
                 inflight, api_calls_today, last_api_reset, today>>

\* create_tax_parcels_from_transactions up to the loop: the three DELETEs and
\* the SELECT of the executed transactions.
RebuildBegin ==
    /\ pc = "idle"
    /\ events' = DeleteCgtEvents(events)
    /\ drawn' = DeleteCgtEvents(drawn)
    /\ parcels' = DeleteTaxParcels(parcels)
    /\ losses' = DeleteCapitalLosses(losses)
    /\ pending' = ExecutedTransactions(ledger)
    /\ pc' = "rebuild"
    /\ nops' = 0
    /\ last' = [Quiet("begin") EXCEPT
                    !.rerun = baseline.valid,
                    !.dirty = /\ baseline.valid
                              /\ \/ parcels # baseline.parcels
                                 \/ events # baseline.events
                                 \/ losses # <<>>]
    /\ UNCHANGED <<ledger, baseline,
                 inflight, api_calls_today, last_api_reset, today>>

\* One turn of the loop for a buy.
RebuildBuy ==
    /\ pc = "rebuild"
    /\ pending # <<>>
    /\ Head(pending).action = "buy"
    /\ parcels' = Append(parcels, NewParcel(Head(pending)))
    /\ pending' = Tail(pending)
    /\ last' = InRebuild(Quiet("buy"))
    /\ UNCHANGED <<ledger, events, drawn, losses, pc, nops, baseline,
                 inflight, api_calls_today, last_api_reset, today>>

\* One turn of the loop for a sell: the events are stored when the sale
\* returns; when it raises, the except clause prints and continues.
RebuildSell ==
    /\ pc = "rebuild"
    /\ pending # <<>>
    /\ Head(pending).action = "sell"
    /\ \E t \in {Head(pending)} :
       \E r \in {HistoricalSale(parcels, t.stock, t.date, t.quantity, t.price, "FIFO")} :
           /\ parcels' = r.parcels
           /\ events' = InsertEvents(events, EventRows(r.cgt_events, t.date))
           /\ drawn' = drawn \o r.src
           /\ last' = InRebuild(Report("sell", t, r.raised, r.need, r.available,
                                       Len(r.cgt_events)))
    /\ pending' = ContinueWith(Tail(pending), last'.raised)
    /\ UNCHANGED <<ledger, losses, pc, nops, baseline,
                 inflight, api_calls_today, last_api_reset, today>>

\* conn.commit() after the loop.
RebuildCommit ==
    /\ pc = "rebuild"
    /\ pending = <<>>
    /\ pc' = "idle"
    /\ last' = InRebuild(Quiet("commit"))
    /\ baseline' = [valid |-> TRUE, parcels |-> parcels, events |-> events]
    /\ UNCHANGED <<ledger, parcels, events, drawn, losses, pending, nops,
                 inflight, api_calls_today, last_api_reset, today>>

\* calculate_cgt_for_sale
LiveSale(sale) ==
    /\ pc = "idle"
    /\ nops < MaxOps
    /\ \E r \in {LiveSaleOutcome(parcels, sale)} :
           /\ parcels' = r.parcels
           /\ events' = InsertEvents(events, EventRows(r.cgt_events, sale.sale_date))
           /\ drawn' = drawn \o r.src
           /\ last' = Report("sale", sale, r.raised, r.need, r.available,
                             Len(r.cgt_events))
    /\ nops' = nops + 1
    /\ UNCHANGED <<ledger, losses, pc, pending, baseline,
                 inflight, api_calls_today, last_api_reset, today>>

\* calculate_annual_cgt
AnnualCall(tax_year) ==
    /\ pc = "idle"
    /\ \E r \in {AnnualOutcome(events, losses, tax_year)} :
           /\ losses' = r.losses
           /\ last' = [Quiet("annual") EXCEPT !.req = r.summary]
    /\ UNCHANGED <<ledger, parcels, events, drawn, pc, pending, baseline,
                 inflight, api_calls_today, last_api_reset, today>>

\* calculate_annual_cgt as one of the MaxOps live operations after a rebuild
Annual(tax_year) ==
    /\ nops < MaxOps
    /\ AnnualCall(tax_year)
    /\ nops' = nops + 1

\* calculate_annual_cgt called any number of times
AnnualRepeatable(tax_year) ==
    /\ AnnualCall(tax_year)
    /\ UNCHANGED nops

\* get_unrealised_gains
UnrealisedGains(current_prices, now) ==
    /\ pc = "idle"
    /\ parcels' = SelectOnly(parcels)
    /\ last' = [Quiet("unrealised") EXCEPT
                    !.req = [current_prices |-> current_prices] @@
                            get_unrealised_gains(parcels, current_prices, now)]
    /\ UNCHANGED <<ledger, events, drawn, losses, pc, pending, nops, baseline,
                 inflight, api_calls_today, last_api_reset, today>>

\* optimize_cgt_sale
OptimizeSale(arg, now) ==
    /\ pc = "idle"
    /\ parcels' = SelectOnly(parcels)
    /\ last' = [Quiet("optimize") EXCEPT
                    !.req = optimize_cgt_sale(parcels, arg.stock, arg.target_gain,
                                              arg.current_price, now)]
    /\ UNCHANGED <<ledger, events, drawn, losses, pc, pending, nops, baseline,
                 inflight, api_calls_today, last_api_reset, today>>

Next ==
    \/ \E t \in TxnChoices : AddTransaction(t)
    \/ RebuildBegin
    \/ RebuildBuy
    \/ RebuildSell
    \/ RebuildCommit
    \/ \E sale \in SaleChoices : LiveSale(sale)
    \/ \E tax_year \in TaxYears : Annual(tax_year)

Spec == Init /\ [][Next]_vars

----------------------------------------------------------------------------
(* The engine opened on a ledger that is already there: rebuilds, live      *)
(* sales, annual aggregations and estimates, in any order                   *)

\* The transactions table when the calculator is constructed: up to
\* MaxLedger rows, each one of these.
LedgerRowChoices ==
    { Txn(D1, "A", "buy", MaxQty + 1, 2, 1, "executed"),
      Txn(D2, "A", "sell", MaxQty, 1, 1, "executed"),
      Txn(D3, "A", "sell", 1, 4, 1, "executed"),
      Txn(D1, "B", "buy", 1, 2, 1, "executed") }

LedgerChoices == UNION { [1..n -> LedgerRowChoices] : n \in 0..MaxLedger }

\* Arguments of calculate_cgt_for_sale between the reports.
ReportSaleChoices ==
    { Sale("A", D4, 1, 5, "FIFO"),
      Sale("A", D2, MaxQty + 2, 4, "FIFO"),
      Sale("B", D3, 1, 2, "LIFO") }

\* Arguments of calculate_annual_cgt between the reports.
ReportTaxYears == { get_tax_year(d) : d \in {D1, D2, D3, D4} }

ReportInit ==
    /\ ledger \in LedgerChoices
    /\ parcels = <<>>
    /\ events = <<>>
    /\ drawn = <<>>
    /\ losses = <<>>
    /\ pc = "idle"
    /\ pending = <<>>
    /\ last = Quiet("init")
    /\ nops = 0
    /\ baseline = NoBaseline
    /\ inflight = {}
    /\ api_calls_today = 0
    /\ last_api_reset = 0
    /\ today = 0

ReportNext ==
    \/ RebuildBegin
    \/ RebuildBuy
    \/ RebuildSell
    \/ RebuildCommit
    \/ \E sale \in ReportSaleChoices : LiveSale(sale)
    \/ \E tax_year \in ReportTaxYears : AnnualRepeatable(tax_year)
    \/ \E current_prices \in PriceMaps, now \in NowChoices :
           UnrealisedGains(current_prices, now)
    \/ \E arg \in OptimizeChoices, now \in NowChoices : OptimizeSale(arg, now)

ReportSpec == ReportInit /\ [][ReportNext]_vars

----------------------------------------------------------------------------
(* get_tax_year on its own: a date is chosen, then the function is applied *)

TaxYearInit ==
    /\ ledger = <<>>
    /\ parcels = <<>>
    /\ events = <<>>
    /\ drawn = <<>>
    /\ losses = <<>>
    /\ pc = "get_tax_year"
    /\ pending = <<>>
    /\ \E d \in DateChoices : last = [Quiet("date") EXCEPT !.req = d]
    /\ nops = 0
    /\ baseline = NoBaseline
    /\ inflight = {}
    /\ api_calls_today = 0
    /\ last_api_reset = 0
    /\ today = 0

ApplyGetTaxYear ==
    /\ pc = "get_tax_year"
    /\ last.op = "date"
    /\ last' = [Quiet("get_tax_year") EXCEPT
                    !.req = [date |-> last.req, tax_year |-> get_tax_year(last.req)]]
    /\ UNCHANGED <<ledger, parcels, events, drawn, losses, pc, pending, nops, baseline,
                 inflight, api_calls_today, last_api_reset, today>>

TaxYearNext == ApplyGetTaxYear

TaxYearSpec == TaxYearInit /\ [][TaxYearNext]_vars

----------------------------------------------------------------------------
(* calculate_cgt_for_sale calls that overlap: each call has its own         *)
(* connection; it reads the parcels with its SELECT, and its UPDATEs,       *)
(* INSERTs and commit come later, other calls reading or writing in between *)

\* Arguments of overlapping calculate_cgt_for_sale calls.
OverlapSaleChoices ==
    { Sale("A", D3, MaxQty, 4, "FIFO"),
      Sale("A", D3, 1, 4, "LIFO"),
      Sale("B", D3, 1, 4, "FIFO") }

\* UPDATE tax_parcels SET remaining_quantity = ?, sold = ? WHERE id = ?, once
\* per parcel the call drew from: the values are those the call computed from
\* the rows it fetched, whatever the table holds by now.
WriteBack(current, fetched, updated, touched) ==
    [i \in DOMAIN current |->
        IF i \in touched
        THEN [current[i] EXCEPT
                 !.remaining_quantity = updated[i].remaining_quantity,
                 !.sold = updated[i].sold]
        ELSE current[i]]

OverlapInit ==
    /\ ledger \in LedgerChoices
    /\ parcels = <<>>
    /\ events = <<>>
    /\ drawn = <<>>
    /\ losses = <<>>
    /\ pc = "idle"
    /\ pending = <<>>
    /\ last = Quiet("init")
    /\ nops = 0
    /\ baseline = NoBaseline
    /\ inflight = {}
    /\ api_calls_today = 0
    /\ last_api_reset = 0
    /\ today = 0

\* calculate_cgt_for_sale up to parcels = cursor.fetchall()
SaleRead(sale) ==
    /\ pc = "idle"
    /\ nops < MaxOps
    /\ inflight' = inflight \cup {[call |-> nops + 1, sale |-> sale, parcels |-> parcels]}
    /\ nops' = nops + 1
    /\ last' = Quiet("read")
    /\ UNCHANGED <<ledger, parcels, events, drawn, losses, pc, pending, baseline,
                   api_calls_today, last_api_reset, today>>

\* calculate_cgt_for_sale from the loop over the fetched parcels to the end:
\* the UPDATEs, then the raise without commit or the INSERTs and the commit.
SaleWrite(c) ==
    /\ pc = "idle"
    /\ c \in inflight
    /\ \E r \in {LiveSaleOutcome(c.parcels, c.sale)} :
           /\ parcels' = IF r.raised = "none"
                         THEN WriteBack(parcels, c.parcels, r.parcels,
                                        {r.src[k] : k \in DOMAIN r.src})
                         ELSE parcels
           /\ events' = InsertEvents(events, EventRows(r.cgt_events, c.sale.sale_date))
           /\ drawn' = drawn \o r.src
           /\ last' = Report("write", c.sale, r.raised, r.need, r.available,
                             Len(r.cgt_events))
    /\ inflight' = inflight \ {c}
    /\ UNCHANGED <<ledger, losses, pc, pending, nops, baseline,
                   api_calls_today, last_api_reset, today>>

\* The first UPDATE of a call finds the database locked by another call's
\* open transaction for longer than the connection's timeout:
\* sqlite3.OperationalError leaves the function, nothing is written.
SaleLocked(c) ==
    /\ pc = "idle"
    /\ c \in inflight
    /\ inflight \ {c} # {}
    /\ inflight' = inflight \ {c}
    /\ last' = Report("write", c.sale, "locked", c.sale.quantity, 0, 0)
    /\ UNCHANGED <<ledger, parcels, events, drawn, losses, pc, pending, nops, baseline,
                   api_calls_today, last_api_reset, today>>

\* A rebuild that no calculate_cgt_for_sale call overlaps.
RebuildBeginAlone ==
    /\ inflight = {}
    /\ RebuildBegin

OverlapNext ==
    \/ RebuildBeginAlone
    \/ RebuildBuy
    \/ RebuildSell
    \/ RebuildCommit
    \/ \E sale \in OverlapSaleChoices : SaleRead(sale)
    \/ \E c \in inflight : SaleWrite(c)
    \/ \E c \in inflight : SaleLocked(c)

OverlapSpec == OverlapInit /\ [][OverlapNext]_vars

----------------------------------------------------------------------------
(* ASXPortfolioTracker.get_current_price_eodhd and its daily call counter   *)

\* if not force and self.api_calls_today >= 20
api_call_limit == 20

MaxDays == 2          \* days the clock advances
MaxOverLimit == 2     \* forced requests are followed up to this far over the limit

\* What the real-time endpoint answers: a close price, close = 'NA', a body
\* without close, or an error (requests raises).
RealtimeChoices == {"price", "na", "noclose", "error"}

\* What the end-of-day endpoint answers: a close price, no usable row, or an
\* error.
EodChoices == {"price", "nodata", "error"}

\* get_eod_price_eodhd: the counter goes up when the response was read.
get_eod_price_eodhd(calls, eod) ==
    [api_calls_today |-> IF eod = "error" THEN calls ELSE calls + 1,
     returned |-> IF eod = "price" THEN "price" ELSE "None"]

\* The first statement of get_current_price_eodhd: a request that is not
\* forced goes on only while the counter is under the limit.
PassesLimitCheck(calls, reset, now, force) ==
    ~(~force /\ calls >= api_call_limit)

\* get_current_price_eodhd: the limit check, then the reset of the counter
\* on a new day, then the real-time call with the end-of-day call as its
\* fallback.
get_current_price_eodhd(calls, reset, now, force, realtime, eod) ==
    IF ~PassesLimitCheck(calls, reset, now, force)
    THEN [allowed |-> FALSE, api_calls_today |-> calls, last_api_reset |-> reset,
          returned |-> "None"]
    ELSE LET counted == IF now > reset THEN 0 ELSE calls
             day == IF now > reset THEN now ELSE reset
             fallback == get_eod_price_eodhd(
                             IF realtime = "error" THEN counted ELSE counted + 1, eod)
         IN  IF realtime = "price"
             THEN [allowed |-> TRUE, api_calls_today |-> counted + 1,
                   last_api_reset |-> day, returned |-> "price"]
             ELSE IF realtime = "noclose"
             THEN [allowed |-> TRUE, api_calls_today |-> counted + 1,
                   last_api_reset |-> day, returned |-> "None"]
             ELSE [allowed |-> TRUE, api_calls_today |-> fallback.api_calls_today,
                   last_api_reset |-> day, returned |-> fallback.returned]

\* ASXPortfolioTracker.__init__: the counter at 0, last_api_reset today.
PriceInit ==
    /\ ledger = <<>>
    /\ parcels = <<>>
    /\ events = <<>>
    /\ drawn = <<>>
    /\ losses = <<>>
    /\ pc = "idle"
    /\ pending = <<>>
    /\ last = Quiet("init")
    /\ nops = 0
    /\ baseline = NoBaseline
    /\ inflight = {}
    /\ api_calls_today = 0
    /\ last_api_reset = 0
    /\ today = 0

\* Midnight: datetime.now().date() moves on.
NextDay ==
    /\ today < MaxDays
    /\ today' = today + 1
    /\ last' = Quiet("midnight")
    /\ UNCHANGED <<ledger, parcels, events, drawn, losses, pc, pending, nops, baseline,
                   inflight, api_calls_today, last_api_reset>>

\* One get_current_price_eodhd request.
PriceRequest(force, realtime, eod) ==
    /\ force => api_calls_today < api_call_limit + MaxOverLimit
    /\ \E r \in {get_current_price_eodhd(api_calls_today, last_api_reset, today,
                                         force, realtime, eod)} :
           /\ api_calls_today' = r.api_calls_today
           /\ last_api_reset' = r.last_api_reset
           /\ last' = [Quiet("price") EXCEPT
                          !.req = [force |-> force, allowed |-> r.allowed,
                                   returned |-> r.returned]]
    /\ UNCHANGED <<ledger, parcels, events, drawn, losses, pc, pending, nops, baseline,
                   inflight, today>>

PriceNext ==
    \/ NextDay
    \/ \E force \in BOOLEAN, realtime \in RealtimeChoices, eod \in EodChoices :
           PriceRequest(force, realtime, eod)

PriceSpec == PriceInit /\ [][PriceNext]_vars

----------------------------------------------------------------------------
(* Properties *)

RECURSIVE SumQuantity(_)
SumQuantity(rows) ==
    IF rows = <<>> THEN 0 ELSE Head(rows).quantity + SumQuantity(Tail(rows))

\* The step is a sale (live, or a sell replayed by the rebuild) ...
SaleStep == last'.op \in {"sale", "sell"}
\* ... that returned its events / that raised.
SaleReturned == SaleStep /\ last'.raised = "none"
SaleRaised == SaleStep /\ last'.raised # "none"

\* The rows the step appended to cgt_events.
StoredByStep == SubSeq(events', Len(events) + 1, Len(events'))

\* C1: for every sale the matcher completes without error, live or replayed
\* by the rebuild, the quantities of the events stored for that sale sum to
\* the requested sale quantity.
C1_QuantityConserved ==
    [][SaleReturned =>
        /\ Len(events') = Len(events) + last'.produced
        /\ last'.produced >= 1
        /\ SumQuantity(StoredByStep) = last'.req.quantity]_vars

\* A live sale returned events drawn from two parcels.
C1_Witness ==
    /\ last.op = "sale"
    /\ last.raised = "none"
    /\ last.produced = 2
    /\ SumQuantity(SubSeq(events, Len(events) - 1, Len(events))) = last.req.quantity

ParcelWithinBounds(p) ==
    0 <= p.remaining_quantity /\ p.remaining_quantity <= p.quantity

\* C2: every parcel has 0 <= remaining_quantity <= quantity at all times;
\* in every step other than the clearing of the store by a rebuild, no
\* parcel disappears, no parcel's quantity changes and no parcel's
\* remaining_quantity increases.
C2_ParcelMonotone ==
    /\ [](\A i \in DOMAIN parcels : ParcelWithinBounds(parcels[i]))
    /\ [][last'.op # "begin" =>
            /\ Len(parcels') >= Len(parcels)
            /\ \A i \in DOMAIN parcels :
                  /\ parcels'[i].quantity = parcels[i].quantity
                  /\ parcels'[i].remaining_quantity <= parcels[i].remaining_quantity]_vars

\* A live sale failed on a store holding a partly sold parcel.
C2_Witness ==
    /\ last.op = "sale"
    /\ last.raised = "insufficient"
    /\ \E i \in DOMAIN parcels :
          0 < parcels[i].remaining_quantity
          /\ parcels[i].remaining_quantity < parcels[i].quantity

\* C3: when calculate_cgt_for_sale raises (no parcel with shares left, or
\* fewer shares left than requested), tax_parcels and cgt_events are what
\* they were before the call.
C3_LiveFailureNoMutation ==
    [][(last'.op = "sale" /\ last'.raised # "none") =>
        /\ parcels' = parcels
        /\ events' = events
        /\ losses' = losses]_vars

\* A live sale raised after its loop had drawn from a parcel.
C3_Witness ==
    /\ last.op = "sale"
    /\ last.raised = "insufficient"
    /\ last.available > 0
    /\ \E i \in DOMAIN parcels :
          parcels[i].stock = last.req.stock /\ parcels[i].remaining_quantity > 0

\* C4: a sell the rebuild cannot match mutates nothing: once it has been
\* skipped, every parcel's remaining_quantity and sold flag are what they
\* were just before it was processed, and no event is stored for it.
C4_SkippedSellMutatesNothing ==
    [][(last'.op = "sell" /\ last'.raised # "none") =>
        /\ parcels' = parcels
        /\ events' = events]_vars

\* The request of the step's sale, whichever path it takes.
StepStock == last'.req.stock
StepQuantity == last'.req.quantity
StepDate == IF last'.op = "sale" THEN last'.req.sale_date ELSE last'.req.date
StepMethod == IF last'.op = "sale" THEN last'.req.method ELSE "FIFO"

\* The parcels eligible for the step's sale, in the store before the step:
\* those of the instrument with shares left and, for a replayed sell,
\* acquired on or before the sale date.
StepEligible ==
    {i \in DOMAIN parcels :
        /\ parcels[i].stock = StepStock
        /\ parcels[i].remaining_quantity > 0
        /\ last'.op = "sell" => DateLE(parcels[i].acquisition_date, StepDate)}

RECURSIVE TotalRemaining(_, _)
TotalRemaining(ps, S) ==
    IF S = {} THEN 0
    ELSE LET i == CHOOSE x \in S : TRUE
         IN  ps[i].remaining_quantity + TotalRemaining(ps, S \ {i})

\* C5: a rebuild runs over the whole fetched ledger and commits.  The step
\* that skips a sell keeps the events stored so far and goes on; every
\* later turn of the loop processes the next transaction: a buy creates
\* its parcel, a sell that can be matched stores its events, the events
\* stored earlier stay; and after the last transaction the rebuild commits
\* what it built.
C5_RebuildContinues ==
    /\ [][(last'.op = "sell" /\ last'.raised # "none") =>
            /\ events' = events
            /\ pc' = "rebuild"
            /\ pending' = Tail(pending)]_vars
    /\ [][(pc = "rebuild" /\ last.skipped > 0) =>
            IF pending = <<>>
            THEN /\ pc' = "idle"
                 /\ last'.op = "commit"
                 /\ parcels' = parcels /\ events' = events
            ELSE /\ pc' = "rebuild"
                 /\ pending' = Tail(pending)
                 /\ Len(events') >= Len(events)
                 /\ SubSeq(events', 1, Len(events)) = events
                 /\ Head(pending).action = "buy" =>
                       /\ Len(parcels') = Len(parcels) + 1
                       /\ parcels'[Len(parcels')].stock = Head(pending).stock
                       /\ parcels'[Len(parcels')].remaining_quantity
                              = Head(pending).quantity
                 /\ (/\ Head(pending).action = "sell"
                     /\ StepEligible # {}
                     /\ TotalRemaining(parcels, StepEligible) >= Head(pending).quantity)
                       => /\ last'.raised = "none"
                          /\ Len(events') > Len(events)]_vars

\* A replayed sell stored its events after an earlier sell of the same
\* rebuild had been skipped and a later buy had created its parcel.
C5_Witness ==
    /\ pc = "rebuild"
    /\ last.op = "sell"
    /\ last.raised = "none"
    /\ last.skipped > 0
    /\ last.produced > 0
    /\ Len(parcels) > 0

\* C6: what a rebuild leaves depends only on the executed transactions:
\* it leaves no capital_losses rows, and a rebuild that reads the same
\* executed transactions as the rebuild before it, whatever live sales and
\* annual aggregations came in between, leaves the same parcels and
\* events (rows compared by position, that is up to row ids).
C6_RebuildDeterministic ==
    [][last'.op = "commit" =>
        /\ losses' = <<>>
        /\ baseline.valid =>
              /\ parcels' = baseline.parcels
              /\ events' = baseline.events]_vars

\* A rebuild committed over a store that live operations had changed since
\* the previous rebuild of the same executed transactions.
C6_Witness ==
    /\ last.op = "commit"
    /\ last.rerun
    /\ last.dirty
    /\ Len(parcels) > 0
    /\ Len(events) > 0

\* The shares the step took from parcel i.
Taken(i) == parcels[i].remaining_quantity - parcels'[i].remaining_quantity

\* Parcel i comes before parcel j in the order of the step's method.
EarlierInOrder(i, j) ==
    IF StepMethod = "LIFO"
    THEN DateLT(parcels[j].acquisition_date, parcels[i].acquisition_date)
    ELSE DateLT(parcels[i].acquisition_date, parcels[j].acquisition_date)

\* C7: a sale consumes the eligible parcels in acquisition-date order,
\* ascending for FIFO and for any method other than LIFO, descending for
\* LIFO: a parcel is drawn from only when every eligible parcel earlier in
\* the order has been reduced to zero by the same sale, the k-th parcel
\* drawn gives min(still to sell, its remaining quantity), at most one
\* parcel (the last drawn) is left partly consumed, and no other parcel
\* changes.
C7_OrderedConsumption ==
    [][SaleReturned =>
        /\ \A j \in StepEligible : Taken(j) > 0 =>
              \A i \in StepEligible :
                  EarlierInOrder(i, j) => parcels'[i].remaining_quantity = 0
        /\ \A k \in 1..last'.produced :
              LET src == drawn'[Len(events) + k]
                  sold_before == SumQuantity(SubSeq(StoredByStep, 1, k - 1))
              IN  /\ src \in StepEligible
                  /\ StoredByStep[k].quantity =
                        Min(StepQuantity - sold_before, parcels[src].remaining_quantity)
                  /\ Taken(src) = StoredByStep[k].quantity
                  /\ StoredByStep[k].acquisition_date = parcels[src].acquisition_date
                  /\ k < last'.produced => parcels'[src].remaining_quantity = 0
        /\ \A i \in DOMAIN parcels :
              Taken(i) # 0 => \E k \in 1..last'.produced : drawn'[Len(events) + k] = i]_vars

\* A live LIFO sale drew first from the newer parcel, then from the older.
C7_Witness ==
    /\ last.op = "sale"
    /\ last.raised = "none"
    /\ last.req.method = "LIFO"
    /\ last.produced = 2
    /\ DateLT(events[Len(events)].acquisition_date,
              events[Len(events) - 1].acquisition_date)
    /\ parcels[drawn[Len(events) - 1]].remaining_quantity = 0
    /\ parcels[drawn[Len(events)]].remaining_quantity > 0

RECURSIVE CostDrawnFrom(_, _, _)
CostDrawnFrom(rows, src, i) ==
    IF rows = <<>> THEN 0
    ELSE (IF Head(src) = i THEN Head(rows).cost_base ELSE 0)
         + CostDrawnFrom(Tail(rows), Tail(src), i)

\* C8: for every parcel whose remaining_quantity has reached 0, the
\* cost_base values of the events drawn from it sum to the parcel's
\* cost_base (total cost + brokerage).
C8_CostBaseConserved ==
    \A i \in DOMAIN parcels :
        parcels[i].remaining_quantity = 0 =>
            CostDrawnFrom(events, drawn, i) = parcels[i].cost_base

\* C9: when a sale asks for more than the total remaining quantity of the
\* instrument's eligible parcels, and at least one parcel is eligible, it
\* fails as insufficient, reporting that total as the available quantity
\* and the quantity asked for as the requested one.
C9_InsufficientReported ==
    [][(/\ SaleStep
        /\ StepEligible # {}
        /\ StepQuantity > TotalRemaining(parcels, StepEligible)) =>
        /\ last'.raised = "insufficient"
        /\ last'.available = TotalRemaining(parcels, StepEligible)
        /\ last'.need = StepQuantity]_vars

\* A live sale failed as insufficient while another instrument's parcel
\* held shares too.
C9_Witness ==
    /\ last.op = "sale"
    /\ last.raised = "insufficient"
    /\ last.available > 0
    /\ last.need > last.available
    /\ \E i \in DOMAIN parcels :
          parcels[i].stock # last.req.stock /\ parcels[i].remaining_quantity > 0

RECURSIVE SumDiscountedGains(_)
SumDiscountedGains(rows) ==
    IF rows = <<>> THEN 0
    ELSE (IF Head(rows).capital_gain > 0 THEN Head(rows).discounted_gain ELSE 0)
         + SumDiscountedGains(Tail(rows))

RECURSIVE SumLossMagnitudes(_)
SumLossMagnitudes(rows) ==
    IF rows = <<>> THEN 0
    ELSE (IF Head(rows).capital_gain <= 0 THEN Abs(Head(rows).capital_gain) ELSE 0)
         + SumLossMagnitudes(Tail(rows))

RECURSIVE Outstanding(_)
Outstanding(rows) ==
    IF rows = <<>> THEN 0
    ELSE Max(0, Head(rows).remaining_loss) + Outstanding(Tail(rows))

\* C10: with current_year_net = (sum of the discounted gains of the year's
\* events with capital_gain > 0) - (sum of the magnitudes of those with
\* capital_gain <= 0) and C the outstanding carried-forward losses before
\* the call, calculate_annual_cgt returns net_capital_gain =
\* max(0, current_year_net - C) when current_year_net > 0 and 0 otherwise;
\* it is never negative; the carried losses used (the fall of the carried
\* balance the summary reports) are min(C, current_year_net) in a gain
\* year and none otherwise.
C10_NetCapitalGain ==
    [][last'.op = "annual" =>
        LET summary == last'.req
            rows == SelectSeq(events, LAMBDA e : e.tax_year = summary.tax_year)
            current_year_net == SumDiscountedGains(rows) - SumLossMagnitudes(rows)
            C == Outstanding(losses)
            used == C - summary.carried_forward_losses
        IN  /\ summary.net_capital_gain =
                  (IF current_year_net > 0 THEN Max(0, current_year_net - C) ELSE 0)
            /\ summary.net_capital_gain >= 0
            /\ used = (IF current_year_net > 0 THEN Min(C, current_year_net) ELSE 0)]_vars

\* A gain year was aggregated while an earlier year's loss was outstanding.
C10_Witness ==
    /\ last.op = "annual"
    /\ last.req.discounted_gains - last.req.total_capital_losses > 0
    /\ last.req.discount_eligible_gains > 0
    /\ last.req.carried_forward_losses > 0
    /\ \E k \in DOMAIN losses :
          /\ losses[k].tax_year # last.req.tax_year
          /\ losses[k].remaining_loss < losses[k].loss_amount

\* The step is a call of calculate_annual_cgt; what it returned.
AnnualStep == last'.op = "annual"
StepSummary == last'.req
\* current_year_net of the step: discounted gains less losses of the year.
StepNet == last'.req.discounted_gains - last'.req.total_capital_losses

\* The rows of capital_losses for a tax year, and the table without row ids.
LossRowsOf(rows, tax_year) == {k \in DOMAIN rows : rows[k].tax_year = tax_year}
LossRows(rows) == {rows[k] : k \in DOMAIN rows}
SameLossRows(a, b) == Len(a) = Len(b) /\ LossRows(a) = LossRows(b)

\* C11: the carried_forward_losses of the summary calculate_annual_cgt
\* returns is the outstanding balance the store holds after the call: the
\* sum of remaining_loss over the capital_losses rows with
\* remaining_loss > 0, in a gain year and in a loss year.
C11_SummaryIsStoredBalance ==
    [][AnnualStep => StepSummary.carried_forward_losses = Outstanding(losses')]_vars

\* Tax year a is earlier than tax year b.
TaxYearBefore(a, b) == a[1] < b[1]

RECURSIVE OutstandingBefore(_, _)
OutstandingBefore(rows, tax_year) ==
    IF rows = <<>> THEN 0
    ELSE (IF TaxYearBefore(Head(rows).tax_year, tax_year)
          THEN Max(0, Head(rows).remaining_loss) ELSE 0)
         + OutstandingBefore(Tail(rows), tax_year)

\* C12: the carried-forward losses calculate_annual_cgt applies to tax
\* year Y come from loss rows of tax years earlier than Y only: what it
\* uses is at most the balance of those rows, and a row of Y or of a later
\* tax year is left as it was.
C12_OnlyEarlierLossesUsed ==
    [][(AnnualStep /\ StepNet > 0) =>
        LET used == Outstanding(losses) - StepSummary.carried_forward_losses
        IN  /\ used <= OutstandingBefore(losses, StepSummary.tax_year)
            /\ \A k \in DOMAIN losses :
                  ~TaxYearBefore(losses[k].tax_year, StepSummary.tax_year)
                      => losses'[k] = losses[k]]_vars

NoTwoRowsOfAYear(rows) ==
    \A j, k \in DOMAIN rows : rows[j].tax_year = rows[k].tax_year => j = k

\* The one row of the step's tax year holds the year's net loss.
YearLossRecorded ==
    /\ Cardinality(LossRowsOf(losses', StepSummary.tax_year)) = 1
    /\ \A k \in LossRowsOf(losses', StepSummary.tax_year) :
          /\ losses'[k].loss_amount = Abs(StepNet)
          /\ losses'[k].remaining_loss = Abs(StepNet)

\* C13 as stated: when current_year_net <= 0 the call returns
\* net_capital_gain = 0 and leaves exactly one capital_losses row for the
\* tax year, with loss_amount = remaining_loss = |current_year_net|; no tax
\* year has more than one row.
C13_LossYearRecorded ==
    /\ [](NoTwoRowsOfAYear(losses))
    /\ [][(AnnualStep /\ StepNet <= 0) =>
            /\ StepSummary.net_capital_gain = 0
            /\ YearLossRecorded]_vars

\* C13 amended: when current_year_net < 0 the call returns
\* net_capital_gain = 0 and leaves exactly one capital_losses row for the
\* tax year, with loss_amount = remaining_loss = |current_year_net|; when
\* current_year_net = 0 it returns net_capital_gain = 0 and writes nothing
\* to capital_losses; no tax year has more than one row.
C13_NetLossRecorded ==
    /\ [](NoTwoRowsOfAYear(losses))
    /\ [][AnnualStep =>
            /\ StepNet < 0 => (StepSummary.net_capital_gain = 0 /\ YearLossRecorded)
            /\ StepNet = 0 => (StepSummary.net_capital_gain = 0 /\ losses' = losses)]_vars

\* A loss year was aggregated again while its own row and nothing else was
\* outstanding.
C13_Witness ==
    /\ last.op = "annual"
    /\ last.req.discounted_gains - last.req.total_capital_losses < 0
    /\ last.req.carried_forward_losses > 0
    /\ Len(losses) = 1
    /\ losses[1].tax_year = last.req.tax_year
    /\ losses[1].remaining_loss = last.req.total_capital_losses - last.req.discounted_gains

\* The step is a call of calculate_annual_cgt for the tax year of the call
\* just before it.
AnnualAgain ==
    /\ AnnualStep
    /\ last.op = "annual"
    /\ last.req.tax_year = StepSummary.tax_year

\* C14 as stated: a second call for the same tax year, with no rebuild in
\* between, applies the year's loss effect again, so the loss ledger after
\* it differs from the ledger after the first: a gain year that had
\* carried losses outstanding reduces the balance again, a loss year
\* records its loss again.
C14_SecondCallChangesLosses ==
    [][(/\ AnnualAgain
        /\ \/ StepNet < 0
           \/ StepNet > 0 /\ \E k \in DOMAIN losses :
                                losses[k].remaining_loss < losses[k].loss_amount)
        => ~SameLossRows(losses', losses)]_vars

\* C14 amended: a second call for a gain year reduces the carried-forward
\* balance again whenever the first call left some of it outstanding (the
\* carried losses exceeded current_year_net), and changes nothing
\* otherwise; a second call for a loss year replaces the year's row by an
\* equal one, so the loss ledger after two calls is the ledger after one.
C14_SecondCallEffect ==
    [][AnnualAgain =>
        IF StepNet > 0
        THEN IF Outstanding(losses) > 0
             THEN /\ Outstanding(losses') < Outstanding(losses)
                  /\ ~SameLossRows(losses', losses)
             ELSE losses' = losses
        ELSE SameLossRows(losses', losses)]_vars

\* A gain year was aggregated twice: the earlier year's loss row has been
\* reduced by twice the year's net gain and is still outstanding.
C14_Witness ==
    /\ last.op = "annual"
    /\ last.req.discounted_gains - last.req.total_capital_losses > 0
    /\ \E k \in DOMAIN losses :
          /\ losses[k].tax_year # last.req.tax_year
          /\ losses[k].remaining_loss > 0
          /\ losses[k].loss_amount - losses[k].remaining_loss
                 = 2 * (last.req.discounted_gains - last.req.total_capital_losses)

\* C15: an event is discount-eligible exactly when the calendar days from
\* the parcel's acquisition date to the sale date exceed 365, in the live
\* and in the rebuild path: an event of a sale on 2024-06-30 from a parcel
\* acquired on 2023-07-01 (365 days) is not eligible, and one of a sale on
\* 2024-07-01 from the same parcel (366 days) is.
C15_DiscountBoundary ==
    \A k \in DOMAIN events :
        LET e == events[k]
            days == Ordinal(e.sale_date) - Ordinal(e.acquisition_date)
        IN  /\ e.discount_eligible <=> (days > 365)
            /\ (e.acquisition_date = D1 /\ e.sale_date = D2) =>
                   (days = 365 /\ ~e.discount_eligible)
            /\ (e.acquisition_date = D1 /\ e.sale_date = D3) =>
                   (days = 366 /\ e.discount_eligible)

\* The log holds an event the rebuild stored for a sale at exactly 365 days
\* and an event a live sale stored at 366 days.
C15_Witness ==
    /\ pc = "idle"
    /\ baseline.valid
    /\ \E a, b \in DOMAIN events :
          /\ a <= Len(baseline.events)
          /\ events[a].acquisition_date = D1 /\ events[a].sale_date = D2
          /\ ~events[a].discount_eligible
          /\ b > Len(baseline.events)
          /\ events[b].acquisition_date = D1 /\ events[b].sale_date = D3
          /\ events[b].discount_eligible

\* C16: an event's discounted_gain is half of its capital_gain when the
\* event is discount-eligible and capital_gain > 0, and equals capital_gain
\* in every other case (a loss, a zero gain, an ineligible gain).
C16_DiscountApplied ==
    \A k \in DOMAIN events :
        LET e == events[k]
        IN  IF e.discount_eligible /\ e.capital_gain > 0
            THEN 2 * e.discounted_gain = e.capital_gain
            ELSE e.discounted_gain = e.capital_gain

\* The log holds an eligible gain, an eligible loss and an ineligible gain.
C16_Witness ==
    \E a, b, c \in DOMAIN events :
        /\ events[a].discount_eligible /\ events[a].capital_gain > 0
        /\ events[b].discount_eligible /\ events[b].capital_gain < 0
        /\ ~events[c].discount_eligible /\ events[c].capital_gain > 0

\* C17: get_tax_year maps a date of year Y to "Y-(Y+1)" when its month is
\* July or later and to "(Y-1)-Y" when its month is June or earlier; so
\* 30 June of Y falls in the tax year ending in Y and 1 July of Y in the
\* next one, which starts in Y.
C17_TaxYearLabel ==
    last.op = "get_tax_year" =>
        LET d == last.req.date
            label == last.req.tax_year
        IN  /\ d[2] >= 7 => label = <<d[1], d[1] + 1>>
            /\ d[2] <= 6 => label = <<d[1] - 1, d[1]>>
            /\ label[2] = label[1] + 1
            /\ (d[2] = 6 /\ d[3] = 30) => label[2] = d[1]
            /\ (d[2] = 7 /\ d[3] = 1) => label[1] = d[1]

\* get_tax_year was applied to 30 June 2024.
C17_Witness ==
    /\ last.op = "get_tax_year"
    /\ last.req.date = D2
    /\ last.req.tax_year = <<D2[1] - 1, D2[1]>>

\* C18: get_unrealised_gains changes no stored state: whatever the price
\* map, tax_parcels, cgt_events and capital_losses are after the call what
\* they were before it.
C18_UnrealisedReadOnly ==
    [][last'.op = "unrealised" =>
        /\ parcels' = parcels
        /\ events' = events
        /\ losses' = losses]_vars

\* Estimates were returned on a store holding an exhausted parcel, events
\* and a loss row.
C18_Witness ==
    /\ last.op = "unrealised"
    /\ Len(last.req.unrealised) > 0
    /\ \E i \in DOMAIN parcels : parcels[i].remaining_quantity = 0
    /\ events # <<>>
    /\ losses # <<>>

\* C19: get_unrealised_gains returns one record for each parcel that has
\* remaining_quantity > 0 and whose instrument is a key of the price map,
\* describing that parcel, and nothing else; it raises nothing for parcels
\* of instruments absent from the map or for exhausted parcels.
C19_UnrealisedRecords ==
    [][last'.op = "unrealised" =>
        LET r == last'.req
            listed == {i \in DOMAIN parcels :
                          /\ parcels[i].remaining_quantity > 0
                          /\ parcels[i].stock \in DOMAIN r.current_prices}
        IN  /\ last'.raised = "none"
            /\ Len(r.unrealised) = Cardinality(listed)
            /\ {r.src[k] : k \in DOMAIN r.src} = listed
            /\ \A k \in DOMAIN r.unrealised :
                  /\ r.unrealised[k].stock = parcels[r.src[k]].stock
                  /\ r.unrealised[k].acquisition_date
                         = parcels[r.src[k]].acquisition_date
                  /\ r.unrealised[k].quantity
                         = parcels[r.src[k]].remaining_quantity]_vars

\* Estimates were returned for a priced instrument while the store also
\* held an open parcel of an instrument without a price and an exhausted
\* parcel of the priced one.
C19_Witness ==
    /\ last.op = "unrealised"
    /\ Len(last.req.unrealised) > 0
    /\ \E i, j \in DOMAIN parcels :
          /\ parcels[i].remaining_quantity > 0
          /\ parcels[i].stock \notin DOMAIN last.req.current_prices
          /\ parcels[j].remaining_quantity = 0
          /\ parcels[j].stock \in DOMAIN last.req.current_prices

\* C20: outside the clearing of the store by a rebuild, the event log only
\* grows: no step (a sale that returns or fails, an annual aggregation, an
\* estimate of unrealised gains, optimize_cgt_sale) changes or removes a
\* stored event, and a live sale that returns appends at least one.
C20_EventLogGrows ==
    [][last'.op # "begin" =>
        /\ Len(events') >= Len(events)
        /\ SubSeq(events', 1, Len(events)) = events
        /\ (last'.op = "sale" /\ last'.raised = "none") => Len(events') > Len(events)
        /\ last'.op \in {"annual", "unrealised", "optimize"} => events' = events
        /\ (last'.op = "sale" /\ last'.raised # "none") => events' = events]_vars

\* Suggestions were returned after a live sale had appended to the events
\* of the last rebuild and a loss had been recorded.
C20_Witness ==
    /\ last.op = "optimize"
    /\ Len(last.req) > 0
    /\ baseline.valid
    /\ Len(baseline.events) > 0
    /\ Len(events) > Len(baseline.events)
    /\ losses # <<>>

----------------------------------------------------------------------------
(* Rebuild and its parcels *)

\* The rows of the ledger that are executed buys.
ExecutedBuys ==
    {i \in DOMAIN ledger : ledger[i].status = "executed" /\ ledger[i].action = "buy"}

\* The place of an executed buy among the executed buys, by date and, for
\* equal dates, by insertion.
RankOfBuy(i) ==
    1 + Cardinality({j \in ExecutedBuys :
                        \/ DateLT(ledger[j].date, ledger[i].date)
                        \/ ledger[j].date = ledger[i].date /\ j < i})

\* C21: when a rebuild commits, tax_parcels holds exactly one parcel per
\* executed buy of the ledger, in (date, insertion) order, none for a sell
\* or for a row that is not executed; each parcel has the buy's instrument,
\* date and quantity, and cost_base = total + fees.
C21_OneParcelPerExecutedBuy ==
    last.op = "commit" =>
        /\ Len(parcels) = Cardinality(ExecutedBuys)
        /\ \A i \in ExecutedBuys :
               /\ parcels[RankOfBuy(i)].stock = ledger[i].stock
               /\ parcels[RankOfBuy(i)].acquisition_date = ledger[i].date
               /\ parcels[RankOfBuy(i)].quantity = ledger[i].quantity
               /\ parcels[RankOfBuy(i)].cost_base = ledger[i].total + ledger[i].fees

\* A rebuild has committed on a ledger that holds a row that is not executed
\* and two executed buys inserted against their dates.
C21_Witness ==
    /\ last.op = "commit"
    /\ \E i \in DOMAIN ledger : ledger[i].status # "executed"
    /\ \E i, j \in ExecutedBuys : i < j /\ DateLT(ledger[j].date, ledger[i].date)
    /\ Len(parcels) = 2

\* The step replays a sell of the ledger.
ReplayedSell == last'.op = "sell"

\* The executed rows of the ledger, and their order of replay: by date and,
\* for equal dates, by insertion.
ExecutedRows == {i \in DOMAIN ledger : ledger[i].status = "executed"}

ReplayedBefore(i, j) ==
    \/ DateLT(ledger[i].date, ledger[j].date)
    \/ ledger[i].date = ledger[j].date /\ i < j

\* The row of the ledger the step replays: as many executed rows are replayed
\* before it as the loop has already taken from the fetched transactions.
ReplayedRow ==
    CHOOSE s \in ExecutedRows :
        Cardinality({i \in ExecutedRows : ReplayedBefore(i, s)})
            = Cardinality(ExecutedRows) - Len(pending)

\* The executed buys of the step's instrument dated on or before its sale
\* date that have shares left: all their shares when they have no parcel yet.
BuysOnOrBeforeSale ==
    {i \in ExecutedBuys :
        /\ ledger[i].stock = StepStock
        /\ DateLE(ledger[i].date, StepDate)
        /\ RankOfBuy(i) <= Len(parcels)
               => parcels[RankOfBuy(i)].remaining_quantity > 0}

\* C22 as stated: a replayed sell finds parcels exactly when the ledger holds
\* an executed buy of the instrument dated on or before the sale date with
\* shares left, a buy of the same day included.
C22_EligibleByDate ==
    [][ReplayedSell => (last'.raised = "no_parcels" <=> BuysOnOrBeforeSale = {})]_vars

\* C22, as the replay does it: when a sell is replayed the store holds the
\* parcels of the executed buys replayed before it, that is dated earlier, or
\* the same day and inserted earlier; the parcels eligible for the sell are
\* those of them of its instrument with shares left (all are acquired on or
\* before the sale date); a buy of the same day inserted after the sell has
\* no parcel yet and is not eligible.
C22_EligibleByReplayOrder ==
    [][ReplayedSell =>
        /\ \A i \in ExecutedBuys :
               RankOfBuy(i) <= Len(parcels) <=> ReplayedBefore(i, ReplayedRow)
        /\ \A k \in DOMAIN parcels : DateLE(parcels[k].acquisition_date, StepDate)
        /\ LET eligible == {k \in DOMAIN parcels :
                               /\ parcels[k].stock = StepStock
                               /\ parcels[k].remaining_quantity > 0}
           IN  /\ last'.raised = "no_parcels" <=> eligible = {}
               /\ last'.raised = "insufficient" =>
                      last'.available = TotalRemaining(parcels, eligible)
               /\ last'.raised = "none" =>
                      /\ TotalRemaining(parcels, eligible) >= StepQuantity
                      /\ \A k \in 1..Len(StoredByStep) :
                             drawn'[Len(drawn) + k] \in eligible]_vars

\* A sell has been replayed and matched against the parcel of a buy of the
\* same day inserted before it, and another replayed sell found no parcels
\* although a buy of its day was inserted after it.
C22_Witness ==
    /\ last.op = "sell"
    /\ last.raised = "none"
    /\ \E k \in DOMAIN events :
           events[k].acquisition_date = events[k].sale_date
    /\ last.skipped > 0
    /\ \E s \in ExecutedRows, i \in ExecutedBuys :
           /\ ledger[s].action = "sell"
           /\ ledger[i].stock = ledger[s].stock
           /\ ledger[i].date = ledger[s].date
           /\ s < i

----------------------------------------------------------------------------
(* Disposals and acquisition dates *)

\* The step is a calculate_cgt_for_sale call.
LiveStep == last'.op = "sale"

\* The open parcels of the step's instrument, whatever their acquisition date.
StepOpen ==
    {i \in DOMAIN parcels :
        parcels[i].stock = StepStock /\ parcels[i].remaining_quantity > 0}

\* C23 as stated: no stored event, replayed or live, has an acquisition date
\* after its sale date, and a sale whose only open parcels were acquired
\* after the sale date fails as "no parcels found".
C23_NeverFromLaterParcel ==
    /\ [](\A k \in DOMAIN events :
              DateLE(events[k].acquisition_date, events[k].sale_date))
    /\ [][(SaleStep /\ \A i \in StepOpen :
                          DateLT(StepDate, parcels[i].acquisition_date))
             => last'.raised = "no_parcels"]_vars

\* C23, as the two paths do it: a replayed sell stores only events with
\* acquisition_date <= sale_date and fails as "no parcels found" when no open
\* parcel of the instrument was acquired on or before the sale date; a live
\* sale applies no date condition: it fails as "no parcels found" only when
\* the instrument has no open parcel at all, and otherwise draws from the
\* open parcels in the order of its method, also from one acquired after
\* the sale date.
C23_DateFilterInReplayOnly ==
    /\ [][ReplayedSell =>
            /\ \A k \in DOMAIN StoredByStep :
                   DateLE(StoredByStep[k].acquisition_date, StoredByStep[k].sale_date)
            /\ (\A i \in StepOpen : DateLT(StepDate, parcels[i].acquisition_date))
                   => last'.raised = "no_parcels"]_vars
    /\ [][LiveStep =>
            /\ last'.raised = "no_parcels" <=> StepOpen = {}
            /\ last'.raised = "insufficient" <=>
                   (StepOpen # {} /\ TotalRemaining(parcels, StepOpen) < StepQuantity)
            /\ last'.raised = "none" =>
                   \A k \in DOMAIN StoredByStep :
                       /\ drawn'[Len(drawn) + k] \in StepOpen
                       /\ StoredByStep[k].acquisition_date
                              = parcels[drawn'[Len(drawn) + k]].acquisition_date]_vars

\* A live sale has stored an event whose parcel was acquired after the sale
\* date, on a store built by a rebuild.
C23_Witness ==
    /\ last.op = "sale"
    /\ last.raised = "none"
    /\ baseline.valid
    /\ \E k \in DOMAIN events :
           DateLT(events[k].sale_date, events[k].acquisition_date)

----------------------------------------------------------------------------
(* Parcels and disposal records *)

\* The shares removed from the parcels of an instrument.
RECURSIVE RemovedFromParcels(_, _)
RemovedFromParcels(ps, stock) ==
    IF ps = <<>> THEN 0
    ELSE (IF Head(ps).stock = stock
          THEN Head(ps).quantity - Head(ps).remaining_quantity ELSE 0)
         + RemovedFromParcels(Tail(ps), stock)

\* The shares of the stored events of an instrument.
DisposedByEvents(rows, stock) ==
    SumQuantity(SelectSeq(rows, LAMBDA e : e.stock = stock))

\* C24: after any sequence of rebuilds and live sales, for each instrument
\* the quantity removed from its parcels equals the quantity of its stored
\* CGT events: no share leaves a parcel without a disposal record.
C24_RemovedSharesAreRecorded ==
    \A stock \in Stocks :
        RemovedFromParcels(parcels, stock) = DisposedByEvents(events, stock)

----------------------------------------------------------------------------
(* Loss balances over several aggregations *)

\* C25: after any sequence of annual aggregations every capital_losses row
\* has 0 <= remaining_loss <= loss_amount, also when several tax years hold
\* outstanding losses at the time a gain year is aggregated.
C25_LossBalanceWithinBounds ==
    \A k \in DOMAIN losses :
        /\ 0 <= losses[k].remaining_loss
        /\ losses[k].remaining_loss <= losses[k].loss_amount

\* C26: a carried-forward loss that an aggregation has consumed stays
\* consumed: no calculate_annual_cgt call, a repeated call for the loss year
\* itself included, increases the remaining_loss of the capital_losses row
\* of a tax year that had one.
C26_ConsumedLossStaysConsumed ==
    [][AnnualStep =>
        \A j \in DOMAIN losses, k \in DOMAIN losses' :
            losses'[k].tax_year = losses[j].tax_year
                => losses'[k].remaining_loss <= losses[j].remaining_loss]_vars

----------------------------------------------------------------------------
(* Overlapping sales *)

\* The step is the writing half of a calculate_cgt_for_sale call that
\* stored its events.
WriteStep == last'.op = "write" /\ last'.raised = "none"

\* The quantity of the events the step stored that were drawn from parcel i.
RECURSIVE DrawnByStep(_, _)
DrawnByStep(i, k) ==
    IF k = 0 THEN 0
    ELSE (IF drawn'[Len(drawn) + k] = i THEN StoredByStep[k].quantity ELSE 0)
         + DrawnByStep(i, k - 1)

\* C27: when calculate_cgt_for_sale calls overlap, each reading the parcels
\* before the other has committed, every call that stores events leaves the
\* store as if it had run alone on the store it wrote to: the events it
\* stored do not exceed what the parcels of the instrument held, and each
\* parcel's remaining_quantity went down by the quantities drawn from it.
C27_OverlapIsSerial ==
    [][WriteStep =>
        /\ SumQuantity(StoredByStep) <= TotalRemaining(parcels, StepOpen)
        /\ \A i \in DOMAIN parcels :
               parcels'[i].remaining_quantity
                   = parcels[i].remaining_quantity - DrawnByStep(i, Len(StoredByStep))]_vars

----------------------------------------------------------------------------
(* Events and their tax year *)

\* The date lies between 1 July of the tax year's first calendar year and
\* 30 June of the following one.
InTaxYear(d, tax_year) ==
    /\ DateLE(<<tax_year[1], 7, 1>>, d)
    /\ DateLE(d, <<tax_year[1] + 1, 6, 30>>)

SoldInTaxYear(rows, tax_year) ==
    SelectSeq(rows, LAMBDA e : InTaxYear(e.sale_date, tax_year))

\* C28: every stored CGT event, replayed or live, carries the tax year
\* Y-(Y+1) in which its own sale date lies, and calculate_annual_cgt for a
\* tax year sums exactly the events whose sale date lies between 1 July of
\* its first year and the following 30 June.
C28_EventsTaggedBySaleDate ==
    /\ [](\A k \in DOMAIN events :
              /\ events[k].tax_year[2] = events[k].tax_year[1] + 1
              /\ InTaxYear(events[k].sale_date, events[k].tax_year))
    /\ [][AnnualStep =>
            /\ StepSummary.discounted_gains
                   = SumDiscountedGains(SoldInTaxYear(events, StepSummary.tax_year))
            /\ StepSummary.total_capital_losses
                   = SumLossMagnitudes(SoldInTaxYear(events, StepSummary.tax_year))]_vars

\* An aggregation has summed a year's events while the log holds events of
\* a replayed sell and of a live sale, sold on 30 June and on 1 July.
C28_Witness ==
    /\ last.op = "annual"
    /\ last.req.total_capital_gains + last.req.total_capital_losses > 0
    /\ baseline.valid
    /\ Len(baseline.events) > 0
    /\ Len(events) > Len(baseline.events)
    /\ \E j, k \in DOMAIN events :
           /\ events[j].sale_date = D2
           /\ events[k].sale_date = D3
           /\ events[j].tax_year # events[k].tax_year

----------------------------------------------------------------------------
(* The sold flag *)

\* The step is a get_unrealised_gains call.
UnrealisedStep == last'.op = "unrealised"

\* C29: in every state of the parcel store a parcel's sold flag is set
\* exactly when its remaining_quantity is 0; a parcel whose
\* remaining_quantity is 0 is never drawn from by a later sale, replayed or
\* live, and is never listed by the unrealised-gain estimator.
C29_SoldIffExhausted ==
    /\ [](\A i \in DOMAIN parcels :
              parcels[i].sold <=> parcels[i].remaining_quantity = 0)
    /\ [][SaleStep =>
            \A k \in DOMAIN StoredByStep :
                parcels[drawn'[Len(drawn) + k]].remaining_quantity > 0]_vars
    /\ [][UnrealisedStep =>
            \A k \in DOMAIN last'.req.src :
                parcels[last'.req.src[k]].remaining_quantity > 0]_vars

\* The estimator has reported on a store that holds a parcel sold out by a
\* replayed sell and a live sale, flagged sold, and an open parcel it lists.
C29_Witness ==
    /\ last.op = "unrealised"
    /\ Len(last.req.src) > 0
    /\ baseline.valid
    /\ Len(events) > Len(baseline.events)
    /\ Len(baseline.events) > 0
    /\ \E i \in DOMAIN parcels :
           parcels[i].sold /\ parcels[i].remaining_quantity = 0

----------------------------------------------------------------------------
(* The daily limit of price-API calls *)

\* The step is a get_current_price_eodhd request.
PriceStep == last'.op = "price"

\* C30: the limit of api_call_limit calls applies per day: once
\* api_calls_today has reached the limit, a request that is not forced and is
\* made on a later calendar day than last_api_reset is allowed to call the
\* API, and it resets the counter: last_api_reset becomes that day and
\* api_calls_today counts only that request's own calls.
C30_LimitIsPerDay ==
    [][(/\ PriceStep
        /\ ~last'.req.force
        /\ api_calls_today >= api_call_limit
        /\ today > last_api_reset)
          => /\ last'.req.allowed
             /\ last_api_reset' = today
             /\ api_calls_today' < api_call_limit]_vars

====
